---- MODULE Spec2Model ----
(***************************************************************************)
(* Model of package exex (src/exex.go): a wrapper around os/exec.Cmd that  *)
(* installs an in-memory buffer as the command's Stderr when the caller    *)
(* left it unset, and copies the buffer into exec.ExitError.Stderr when    *)
(* the platform reports an exit failure.                                   *)
(*                                                                         *)
(* The model has one record per command (the exec.Cmd fields the wrapper   *)
(* and the platform read and write), a heap of byte buffers, the child     *)
(* process of each command, and the caller's position for each command.    *)
(* os/exec itself is the platform: its Start and Wait are modelled at the  *)
(* places where exex.go calls them.  A byte the child writes to its error  *)
(* stream is appended to the destination at once: the platform's Wait      *)
(* returns only after its copying goroutine has delivered every byte, and  *)
(* the wrapper reads the destination only after Wait.                      *)
(***************************************************************************)
EXTENDS Integers, Sequences, FiniteSets, TLC

\* Bounds of the model.
NCmds == 2
MaxWrites == 2
MaxCalls == 3
MaxWrap == 2
MaxPath == 2

Cmds == 1..NCmds
Bytes == {"a", "b"}
Msgs == {<<>>, <<"m">>}

\* The file system the search runs in: the directories, the file names asked
\* for, and the executables that exist (directory, file name).
Dirs == {"/bin", "/usr/bin", "/opt"}
Files == {"prog", "foobarbazquux"}
Exes == {<<"/bin", "prog">>, <<"/usr/bin", "prog">>}

VARIABLES
    active,   \* the commands this run of the system uses
    pc,       \* the caller's position for each command
    cmd,      \* the exec.Cmd fields of each command and its child process
    bufs,     \* the heap of byte destinations, by identity
    local,    \* Cmd.Run's local variable stderr while Run is blocked
    ret,      \* the last call on each command: what it was and what it returned
    written,  \* the bytes each child process wrote to its error stream
    annot,    \* the last CommandError call on each command's errors
    ncalls,   \* the number of Run / Start / Wait calls made on each command
    callerSet, \* the destination the caller assigned to Stderr, if any
    env,      \* the PATH environment variable: the directories searched, in order
    look,     \* the last LookPath call for each file: PATH then, and the result
    entry,    \* the exported function called last on each command, and its context
    hist      \* how many children each command spawned, and its first exit failure

vars == <<active, pc, cmd, bufs, local, ret, written, annot, ncalls, callerSet,
         env, look,
         entry,
         hist>>

----------------------------------------------------------------------------
\* Values.

\* An io.Writer value: nil, a *bytes.Buffer or an *os.File, with its identity.
NilWriter == [type |-> "nil", id |-> 0]

\* The buffer exex allocates for command c, and the caller's own destination.
SinkId(c) == 2 * c - 1
CallerId(c) == 2 * c
BufIds == 1..(2 * NCmds)

\* A []byte value: nil, or a slice of a buffer's backing array.
NilSlice == [isnil |-> TRUE, buf |-> 0, len |-> 0]
MkSlice(id, n) == [isnil |-> FALSE, buf |-> id, len |-> n]

\* An error value is the chain of its layers, outermost first; nil is <<>>.
NilErr == << >>
Layer(k, t, s) == [kind |-> k, text |-> t, Stderr |-> s]
ExitErr(code) ==
    << Layer("ExitError",
             IF code = 1 THEN <<"exit status 1">> ELSE <<"signal: killed">>,
             NilSlice) >>
LookupErr ==
    << Layer("exec.Error", <<"exec: not found">>, NilSlice),
       Layer("ErrNotFound", <<"executable file not found in $PATH">>, NilSlice) >>
SpawnErr == << Layer("PathError", <<"fork/exec: permission denied">>, NilSlice) >>
CtxErr == << Layer("context.Canceled", <<"context canceled">>, NilSlice) >>
AlreadyStartedErr == << Layer("errorString", <<"exec: already started">>, NilSlice) >>
NotStartedErr == << Layer("errorString", <<"exec: not started">>, NilSlice) >>
WaitTwiceErr == << Layer("errorString", <<"exec: Wait was already called">>, NilSlice) >>

\* errors.As(err, &exErr) for exErr of type *exec.ExitError: the index of the
\* first layer of the chain that is an ExitError, 0 when there is none.
AsExit(err) ==
    IF \E i \in 1..Len(err) : err[i].kind = "ExitError"
    THEN CHOOSE i \in 1..Len(err) :
            /\ err[i].kind = "ExitError"
            /\ \A j \in 1..(i - 1) : err[j].kind # "ExitError"
    ELSE 0

IsExit(err) == AsExit(err) # 0

\* The ExitError errors.As found, as the error value the wrapper returns.
ExitOf(err) == SubSeq(err, AsExit(err), Len(err))

\* The Stderr payload reachable from an error (nil when it is no ExitError).
PayloadOf(err) == IF IsExit(err) THEN err[AsExit(err)].Stderr ELSE NilSlice

----------------------------------------------------------------------------
\* The heap of destinations.

\* Variant: one buffer of the package, shared by every command.
NewBufferShared(c) == [type |-> "bytes.Buffer", id |-> SinkId(1)]

\* bytes.NewBuffer(make([]byte, 0, 1024)): a fresh buffer of command c.
NewBuffer(c) == [type |-> "bytes.Buffer", id |-> SinkId(c)]

\* Variant: a slice of the buffer as it was when allocated (length 0).
BufBytesEmpty(h, w) == IF h[w.id].backed THEN MkSlice(w.id, 0) ELSE NilSlice

\* (*bytes.Buffer).Bytes(): the unread part of the backing array, nil for a
\* zero-value buffer nothing was written to.  h is the heap it is read in.
BufBytes(h, w) ==
    IF h[w.id].backed THEN MkSlice(w.id, Len(h[w.id].data)) ELSE NilSlice

\* The bytes a slice holds now.
SliceBytes(s) == IF s.isnil THEN <<>> ELSE SubSeq(bufs[s.buf].data, 1, s.len)

----------------------------------------------------------------------------
\* The wrapper's decisions.

\* Variant: the nil check dropped, the sink installed over any destination.
InstallSinkAlways(c, w) == NewBuffer(c)

\* Cmd.Run, Cmd.Start: the Stderr field after the nil check.
InstallSink(c, w) == IF w = NilWriter THEN NewBuffer(c) ELSE w

\* Cmd.Run: the local variable stderr after the nil check.
RunLocal(c, w) == IF w = NilWriter THEN NewBuffer(c) ELSE NilWriter

\* Variant: the platform's error returned as it came, nothing copied.
RunEnrichNoCopy(h, stderr, err) == err

\* Variant: exErr returned whether or not errors.As filled it.
RunEnrichSwallow(h, stderr, err) ==
    IF stderr # NilWriter
    THEN IF IsExit(err)
         THEN [ExitOf(err) EXCEPT ![1].Stderr = BufBytes(h, stderr)]
         ELSE NilErr
    ELSE err

\* Variant: the sink copied into any error, not only an ExitError.
RunEnrichAny(h, stderr, err) ==
    IF stderr # NilWriter /\ err # NilErr
    THEN [err EXCEPT ![1].Stderr = BufBytes(h, stderr)]
    ELSE err

\* Cmd.Run's tail: copy the sink into the ExitError, or pass err through.
RunEnrich(h, stderr, err) ==
    IF stderr # NilWriter /\ IsExit(err)
    THEN [ExitOf(err) EXCEPT ![1].Stderr = BufBytes(h, stderr)]
    ELSE err

\* Variant: the sink never copied.
LegacyEnrichNone(h, stderr, err) == err

\* RunCommand of the earlier revision (cmd.go): the same tail, deciding by the
\* type assertion err.(*exec.ExitError) on the error itself.
LegacyEnrich(h, stderr, err) ==
    IF err # NilErr /\ err[1].kind = "ExitError" /\ stderr # NilWriter
    THEN [err EXCEPT ![1].Stderr = BufBytes(h, stderr)]
    ELSE err

\* Variant: the sink copied into any error, not only an ExitError.
WaitEnrichAny(h, w, err) ==
    IF w.type = "bytes.Buffer" /\ err # NilErr
    THEN [err EXCEPT ![1].Stderr = BufBytes(h, w)]
    ELSE err

\* Variant: the platform's error returned as it came, nothing copied.
WaitEnrichNoCopy(h, w, err) == err

\* Cmd.Wait's tail: the same, deciding by the dynamic type of c.Stderr.
WaitEnrich(h, w, err) ==
    IF w.type = "bytes.Buffer" /\ IsExit(err)
    THEN [ExitOf(err) EXCEPT ![1].Stderr = BufBytes(h, w)]
    ELSE err

----------------------------------------------------------------------------
\* The platform (os/exec), at the places exex.go calls it.

\* A command value as exec.Command leaves it; found is whether the program
\* name resolved to an executable (exec.Cmd.Err is set when it did not).
NewCmd(ctxv, found) ==
    [Stderr |-> NilWriter, ctx |-> ctxv, Err |-> ~found,
     proc |-> "none", code |-> 0, waited |-> FALSE, killSent |-> FALSE]

NoCmd == NewCmd("none", TRUE)

\* Variant: a command that was started may be started again.
StartErrRestart(k, spawnOk) ==
    IF k.Err THEN LookupErr
    ELSE IF k.ctx = "done" THEN CtxErr
    ELSE IF ~spawnOk THEN SpawnErr
    ELSE NilErr

\* (*exec.Cmd).Start on command value k: the error it returns.  spawnOk is
\* whether the operating system can start the process.
StartErr(k, spawnOk) ==
    IF k.proc # "none" THEN AlreadyStartedErr
    ELSE IF k.Err THEN LookupErr
    ELSE IF k.ctx = "done" THEN CtxErr
    ELSE IF ~spawnOk THEN SpawnErr
    ELSE NilErr

\* (*exec.Cmd).Wait on command value k: the error it returns.  Where the
\* process was started and not yet waited for, k.proc is "exited": the call
\* blocks until then.
WaitErr(k) ==
    IF k.proc = "none" THEN NotStartedErr
    ELSE IF k.waited THEN WaitTwiceErr
    ELSE IF k.code # 0 THEN ExitErr(k.code)
    ELSE IF k.killSent THEN CtxErr
    ELSE NilErr

\* Whether Wait on k returns now (it blocks while the child runs).
WaitReturns(k) == k.proc = "none" \/ k.waited \/ k.proc = "exited"

\* The command value after Start returned err, and after Wait returned.
AfterStart(k, err) == IF err = NilErr THEN [k EXCEPT !.proc = "running"] ELSE k
AfterWait(k) == IF k.proc = "exited" THEN [k EXCEPT !.waited = TRUE] ELSE k

\* The heap after the wrapper's nil check on Stderr value w of command c.
AfterInstall(c, w) ==
    IF w = NilWriter
    THEN [bufs EXCEPT ![NewBuffer(c).id] = [data |-> <<>>, backed |-> TRUE]]
    ELSE bufs

----------------------------------------------------------------------------
\* CommandError.

ErrText(err) == err[1].text

UsageErr ==
    << Layer("errorString", <<"error converting error to exex.ExitError">>, NilSlice) >>

\* The two formats of CommandError's result for an exit failure.
WrapPlain(err, errMsg) ==
    << Layer("wrapError", errMsg \o <<" (">> \o ErrText(err) \o <<")">>, NilSlice) >>
    \o err

WrapWithStderr(err, errMsg) ==
    << Layer("wrapError",
             errMsg \o <<" (">> \o ErrText(err) \o <<")", "\n">>
                    \o SliceBytes(PayloadOf(err)),
             NilSlice) >> \o err

\* Variant: the nil check dropped.
CommandErrorNoNilCheck(err, errMsg) ==
    IF ~IsExit(err) THEN UsageErr
    ELSE IF PayloadOf(err).isnil THEN WrapPlain(err, errMsg)
    ELSE WrapWithStderr(err, errMsg)

\* Variant: the errors.As check dropped, every error wrapped.
CommandErrorWrapAll(err, errMsg) ==
    IF err = NilErr THEN NilErr
    ELSE IF PayloadOf(err).isnil THEN WrapPlain(err, errMsg)
    ELSE WrapWithStderr(err, errMsg)

\* Variant: the payload never appended.
CommandErrorPlainOnly(err, errMsg) ==
    IF err = NilErr THEN NilErr
    ELSE IF ~IsExit(err) THEN UsageErr
    ELSE WrapPlain(err, errMsg)

CommandError(err, errMsg) ==
    IF err = NilErr THEN NilErr
    ELSE IF ~IsExit(err) THEN UsageErr
    ELSE IF PayloadOf(err).isnil THEN WrapPlain(err, errMsg)
    ELSE WrapWithStderr(err, errMsg)

----------------------------------------------------------------------------
\* LookPath and the names exported with it.

\* type Error = exec.Error: the wrapper's error kind is the platform's type.
Error == "exec.Error"

\* var ErrNotFound = exec.ErrNotFound: the platform's sentinel value.
ErrNotFound == "ErrNotFound"

\* err.(*Error): the error itself is of the wrapper's Error kind.
IsError(err) == err # NilErr /\ err[1].kind = Error

\* errors.Is(err, ErrNotFound): some layer of the chain is the sentinel.
IsNotFound(err) == \E i \in 1..Len(err) : err[i].kind = ErrNotFound

\* The positions of env whose directory holds an executable named file.
Hits(path, file) == {i \in 1..Len(path) : <<path[i], file>> \in Exes}

\* Variant: the sentinel returned bare, not inside an Error.
LookPathBare(path, file) ==
    IF Hits(path, file) = {}
    THEN [path |-> <<>>, err |-> SubSeq(LookupErr, 2, 2)]
    ELSE LET i == CHOOSE i \in Hits(path, file) : \A j \in Hits(path, file) : i <= j
         IN  [path |-> <<path[i], file>>, err |-> NilErr]

\* LookPath(file) with PATH = path: the first directory of path that holds
\* the executable, or the empty path and an Error wrapping ErrNotFound.
LookPath(path, file) ==
    IF Hits(path, file) = {}
    THEN [path |-> <<>>, err |-> LookupErr]
    ELSE LET i == CHOOSE i \in Hits(path, file) : \A j \in Hits(path, file) : i <= j
         IN  [path |-> <<path[i], file>>, err |-> NilErr]

NoLook == [called |-> FALSE, env |-> <<>>, path |-> <<>>, err |-> NilErr]

----------------------------------------------------------------------------
\* The initial state: no command built, nothing called.

\* What a call returned: the call, its result (err), what the platform
\* primitive returned inside it (plat), whether c.Stderr was nil and what the
\* context was when the call began, whether the command had never been
\* started then (fresh), and whether the call reaped the child.
Ret(call, err, plat, k) ==
    [call |-> call, err |-> err, plat |-> plat,
     unset |-> (k.Stderr = NilWriter), ctx |-> k.ctx,
     fresh |-> (k.proc = "none"), reaped |-> FALSE]

NoRet == Ret("none", NilErr, NilErr, NoCmd)
\* The exported function the caller called last on a command, the context
\* it passed (none for a function that takes no context), and the value the
\* call panicked with, if it did.
Entry(via, ctxv) ==
    [via |-> via, ctx |-> ctxv, panic |-> IF ctxv = "nil" THEN "nil Context" ELSE ""]
NoEntry == Entry("none", "none")

\* The history of a command: the children spawned for it, and the first
\* ExitError a call returned for it with the bytes its payload held then.
NoHist == [spawns |-> 0, done |-> FALSE, first |-> NilErr, bytes |-> <<>>]

\* The history after the platform's Start returned err.
Spawned(h, err) == IF err = NilErr THEN [h EXCEPT !.spawns = @ + 1] ELSE h

\* The history after a call returned err to the caller.
Completed(h, err) ==
    IF ~h.done /\ IsExit(err)
    THEN [h EXCEPT !.done = TRUE, !.first = err, !.bytes = SliceBytes(PayloadOf(err))]
    ELSE h

NoAnnot == [called |-> FALSE, in |-> NilErr, msg |-> <<>>, out |-> NilErr]

InitWith(A) ==
    /\ active = A
    /\ pc = [c \in Cmds |-> "new"]
    /\ cmd = [c \in Cmds |-> NoCmd]
    /\ bufs = [i \in BufIds |-> [data |-> <<>>, backed |-> FALSE]]
    /\ local = [c \in Cmds |-> NilWriter]
    /\ ret = [c \in Cmds |-> NoRet]
    /\ written = [c \in Cmds |-> <<>>]
    /\ annot = [c \in Cmds |-> NoAnnot]
    /\ ncalls = [c \in Cmds |-> 0]
    /\ callerSet = [c \in Cmds |-> NilWriter]
    /\ env = <<"/usr/bin", "/bin">>
    /\ look = [f \in Files |-> NoLook]
    /\ entry = [c \in Cmds |-> NoEntry]
    /\ hist = [c \in Cmds |-> NoHist]

Init == InitWith({1})

----------------------------------------------------------------------------
\* The caller builds a command.

Command(c, found) ==
    /\ c \in active /\ pc[c] = "new"
    /\ pc' = [pc EXCEPT ![c] = "idle"]
    /\ cmd' = [cmd EXCEPT ![c] = NewCmd("none", found)]
    /\ entry' = [entry EXCEPT ![c] = Entry("Command", "none")]
    /\ UNCHANGED <<active, bufs, local, ret, written, annot, ncalls, callerSet, env, look, hist>>

\* exec.CommandContext panics on a nil context.
CommandContext(c, ctxv, found) ==
    /\ c \in active /\ pc[c] = "new"
    /\ IF ctxv = "nil"
       THEN /\ pc' = [pc EXCEPT ![c] = "panic"]
            /\ cmd' = cmd
       ELSE /\ pc' = [pc EXCEPT ![c] = "idle"]
            /\ cmd' = [cmd EXCEPT ![c] = NewCmd(ctxv, found)]
    /\ entry' = [entry EXCEPT ![c] = Entry("CommandContext", ctxv)]
    /\ UNCHANGED <<active, bufs, local, ret, written, annot, ncalls, callerSet, env, look, hist>>

\* The caller sets cmd.Stderr to a destination of its own before executing.
SetStderr(c, t) ==
    /\ c \in active /\ pc[c] = "idle" /\ ncalls[c] = 0
    /\ cmd[c].Stderr = NilWriter
    /\ cmd' = [cmd EXCEPT ![c].Stderr = [type |-> t, id |-> CallerId(c)]]
    /\ callerSet' = [callerSet EXCEPT ![c] = [type |-> t, id |-> CallerId(c)]]
    /\ UNCHANGED <<active, pc, bufs, local, ret, written, annot, ncalls, env, look, entry, hist>>

\* The caller cancels the command's context.
CtxCancel(c) ==
    /\ c \in active /\ pc[c] \in {"idle", "inRun", "inRunCommand"}
    /\ cmd[c].ctx = "live"
    /\ cmd' = [cmd EXCEPT ![c].ctx = "done"]
    /\ UNCHANGED <<active, pc, bufs, local, ret, written, annot, ncalls, callerSet, env, look, entry, hist>>

----------------------------------------------------------------------------
\* The child process and the platform's context watcher.

ProcWrite(c, b) ==
    /\ c \in active /\ cmd[c].proc = "running"
    /\ Len(written[c]) < MaxWrites
    /\ written' = [written EXCEPT ![c] = Append(@, b)]
    /\ bufs' = [bufs EXCEPT ![cmd[c].Stderr.id] =
                    [data |-> Append(@.data, b), backed |-> TRUE]]
    /\ UNCHANGED <<active, pc, cmd, local, ret, annot, ncalls, callerSet, env, look, entry, hist>>

ProcExit(c, code) ==
    /\ c \in active /\ cmd[c].proc = "running"
    /\ cmd' = [cmd EXCEPT ![c].proc = "exited", ![c].code = code]
    /\ UNCHANGED <<active, pc, bufs, local, ret, written, annot, ncalls, callerSet, env, look, entry, hist>>

\* The context is done and the process not yet waited for: the platform
\* kills it (a process that already exited keeps its status).
CtxKill(c) ==
    /\ c \in active /\ cmd[c].ctx = "done"
    /\ cmd[c].proc # "none" /\ ~cmd[c].waited /\ ~cmd[c].killSent
    /\ cmd' = [cmd EXCEPT ![c].killSent = TRUE,
                          ![c].proc = "exited",
                          ![c].code = IF cmd[c].proc = "running" THEN -1 ELSE @]
    /\ UNCHANGED <<active, pc, bufs, local, ret, written, annot, ncalls, callerSet, env, look, entry, hist>>

----------------------------------------------------------------------------
\* Cmd.Run, split where the platform's Run blocks for the child to exit.

\* Cmd.Run on the command whose fields are k, up to the point where the
\* platform's Run blocks or fails to start.
RunCall(c, k0, spawnOk) ==
    /\ LET w == k0.Stderr
           stderr == RunLocal(c, w)
           k == [k0 EXCEPT !.Stderr = InstallSink(c, w)]
           err == StartErr(k, spawnOk)
       IN  /\ bufs' = AfterInstall(c, w)
           /\ cmd' = [cmd EXCEPT ![c] = AfterStart(k, err)]
           /\ IF err = NilErr
              THEN /\ pc' = [pc EXCEPT ![c] = "inRun"]
                   /\ local' = [local EXCEPT ![c] = stderr]
                   /\ ret' = [ret EXCEPT ![c] = Ret("Run", NilErr, NilErr, k0)]
              ELSE /\ pc' = [pc EXCEPT ![c] = "idle"]
                   /\ local' = local
                   /\ ret' = [ret EXCEPT ![c] =
                                Ret("Run", RunEnrich(bufs', stderr, err), err, k0)]
           /\ hist' = [hist EXCEPT ![c] = Spawned(@, err)]
    /\ ncalls' = [ncalls EXCEPT ![c] = @ + 1]

\* The caller holds the command: it was not built inside Run or RunContext.
Held(c) == entry[c].via \notin {"none", "Run", "RunContext"}

CmdRun(c, spawnOk) ==
    /\ c \in active /\ pc[c] = "idle" /\ ncalls[c] < MaxCalls
    /\ Held(c)
    /\ RunCall(c, cmd[c], spawnOk)
    /\ entry' = [entry EXCEPT ![c] = Entry("Cmd.Run", cmd[c].ctx)]
    /\ UNCHANGED <<active, written, annot, callerSet, env, look>>

CmdRunReturn(c) ==
    /\ c \in active /\ pc[c] = "inRun"
    /\ WaitReturns(cmd[c])
    /\ LET err == WaitErr(cmd[c])
       IN  /\ ret' = [ret EXCEPT ![c].err = RunEnrich(bufs, local[c], err),
                                 ![c].plat = err, ![c].reaped = TRUE]
           /\ hist' = [hist EXCEPT ![c] = Completed(@, RunEnrich(bufs, local[c], err))]
    /\ cmd' = [cmd EXCEPT ![c] = AfterWait(@)]
    /\ pc' = [pc EXCEPT ![c] = "idle"]
    /\ local' = [local EXCEPT ![c] = NilWriter]
    /\ UNCHANGED <<active, bufs, written, annot, ncalls, callerSet, env, look, entry>>

----------------------------------------------------------------------------
\* The functions that build and run a command in one call.

\* Run(name, arg...): Command(name, arg...).Run().
Run(c, found, spawnOk) ==
    /\ c \in active /\ pc[c] = "new"
    /\ RunCall(c, NewCmd("none", found), spawnOk)
    /\ entry' = [entry EXCEPT ![c] = Entry("Run", "none")]
    /\ UNCHANGED <<active, written, annot, callerSet, env, look>>

\* Variant: a nil context accepted as no context.
RunContextNoPanic(c, ctxv, found, spawnOk) ==
    /\ c \in active /\ pc[c] = "new"
    /\ RunCall(c, NewCmd(IF ctxv = "nil" THEN "none" ELSE ctxv, found), spawnOk)
    /\ entry' = [entry EXCEPT ![c] = Entry("RunContext", ctxv)]
    /\ UNCHANGED <<active, written, annot, callerSet, env, look>>

\* RunContext(ctx, name, arg...): CommandContext(ctx, name, arg...).Run();
\* CommandContext panics on a nil context, before Run is reached.
RunContext(c, ctxv, found, spawnOk) ==
    /\ c \in active /\ pc[c] = "new"
    /\ IF ctxv = "nil"
       THEN /\ pc' = [pc EXCEPT ![c] = "panic"]
            /\ UNCHANGED <<cmd, bufs, local, ret, ncalls, hist>>
       ELSE RunCall(c, NewCmd(ctxv, found), spawnOk)
    /\ entry' = [entry EXCEPT ![c] = Entry("RunContext", ctxv)]
    /\ UNCHANGED <<active, written, annot, callerSet, env, look>>

\* RunCommand(cmd) on a command the caller built and has not executed:
\* (*Cmd)(cmd).Run().
RunCommand(c, spawnOk) ==
    /\ c \in active /\ pc[c] = "idle" /\ ncalls[c] = 0
    /\ Held(c)
    /\ RunCall(c, cmd[c], spawnOk)
    /\ entry' = [entry EXCEPT ![c] = Entry("RunCommand", cmd[c].ctx)]
    /\ UNCHANGED <<active, written, annot, callerSet, env, look>>

\* RunCommand(cmd) of the earlier revision (cmd.go), which has the code of
\* Cmd.Run in its own body, split where the platform's Run blocks.
LegacyRunCommand(c, spawnOk) ==
    /\ c \in active /\ pc[c] = "idle" /\ ncalls[c] = 0
    /\ Held(c)
    /\ LET w == cmd[c].Stderr
           stderr == IF w = NilWriter THEN NewBuffer(c) ELSE NilWriter
           k == [cmd[c] EXCEPT !.Stderr = IF w = NilWriter THEN stderr ELSE w]
           err == StartErr(k, spawnOk)
       IN  /\ bufs' = AfterInstall(c, w)
           /\ cmd' = [cmd EXCEPT ![c] = AfterStart(k, err)]
           /\ IF err = NilErr
              THEN /\ pc' = [pc EXCEPT ![c] = "inRunCommand"]
                   /\ local' = [local EXCEPT ![c] = stderr]
                   /\ ret' = [ret EXCEPT ![c] = Ret("Run", NilErr, NilErr, cmd[c])]
              ELSE /\ pc' = pc
                   /\ local' = local
                   /\ ret' = [ret EXCEPT ![c] =
                                Ret("Run", LegacyEnrich(bufs', stderr, err), err, cmd[c])]
           /\ hist' = [hist EXCEPT ![c] = Spawned(@, err)]
    /\ ncalls' = [ncalls EXCEPT ![c] = @ + 1]
    /\ entry' = [entry EXCEPT ![c] = Entry("cmd.go RunCommand", cmd[c].ctx)]
    /\ UNCHANGED <<active, written, annot, callerSet, env, look>>

LegacyRunCommandReturn(c) ==
    /\ c \in active /\ pc[c] = "inRunCommand"
    /\ WaitReturns(cmd[c])
    /\ LET err == WaitErr(cmd[c])
       IN  /\ ret' = [ret EXCEPT ![c].err = LegacyEnrich(bufs, local[c], err),
                                 ![c].plat = err, ![c].reaped = TRUE]
           /\ hist' = [hist EXCEPT ![c] = Completed(@, LegacyEnrich(bufs, local[c], err))]
    /\ cmd' = [cmd EXCEPT ![c] = AfterWait(@)]
    /\ pc' = [pc EXCEPT ![c] = "idle"]
    /\ local' = [local EXCEPT ![c] = NilWriter]
    /\ UNCHANGED <<active, bufs, written, annot, ncalls, callerSet, env, look, entry>>

----------------------------------------------------------------------------
\* Cmd.Start.
CmdStart(c, spawnOk) ==
    /\ c \in active /\ pc[c] = "idle" /\ ncalls[c] < MaxCalls
    /\ Held(c)
    /\ LET w == cmd[c].Stderr
           k == [cmd[c] EXCEPT !.Stderr = InstallSink(c, w)]
           err == StartErr(k, spawnOk)
       IN  /\ bufs' = AfterInstall(c, w)
           /\ cmd' = [cmd EXCEPT ![c] = AfterStart(k, err)]
           /\ ret' = [ret EXCEPT ![c] = Ret("Start", err, err, cmd[c])]
           /\ hist' = [hist EXCEPT ![c] = Spawned(@, err)]
    /\ ncalls' = [ncalls EXCEPT ![c] = @ + 1]
    /\ entry' = [entry EXCEPT ![c] = Entry("Cmd.Start", cmd[c].ctx)]
    /\ UNCHANGED <<active, pc, local, written, annot, callerSet, env, look>>

\* Cmd.Wait, at the moment the platform's Wait returns.
CmdWait(c) ==
    /\ c \in active /\ pc[c] = "idle" /\ ncalls[c] < MaxCalls
    /\ Held(c)
    /\ WaitReturns(cmd[c])
    /\ LET err == WaitErr(cmd[c])
       IN  /\ ret' = [ret EXCEPT ![c] =
                        [Ret("Wait", WaitEnrich(bufs, cmd[c].Stderr, err), err, cmd[c])
                           EXCEPT !.reaped = (cmd[c].proc = "exited" /\ ~cmd[c].waited)]]
           /\ hist' = [hist EXCEPT ![c] = Completed(@, WaitEnrich(bufs, cmd[c].Stderr, err))]
    /\ cmd' = [cmd EXCEPT ![c] = AfterWait(@)]
    /\ ncalls' = [ncalls EXCEPT ![c] = @ + 1]
    /\ entry' = [entry EXCEPT ![c] = Entry("Cmd.Wait", cmd[c].ctx)]
    /\ UNCHANGED <<active, pc, bufs, local, written, annot, callerSet, env, look>>

\* The caller passes an error to CommandError: the error the last call
\* returned, or the error an earlier CommandError made of it.
Annotate(c, again, msg) ==
    /\ c \in active /\ pc[c] = "idle" /\ ret[c].call # "none"
    /\ again => annot[c].called /\ Len(annot[c].out) <= MaxWrap
    /\ LET err == IF again THEN annot[c].out ELSE ret[c].err
       IN  annot' = [annot EXCEPT ![c] =
                        [called |-> TRUE, in |-> err, msg |-> msg,
                         out |-> CommandError(err, msg)]]
    /\ UNCHANGED <<active, pc, cmd, bufs, local, ret, written, ncalls, callerSet, env, look, entry, hist>>

Next ==
    \E c \in Cmds :
        \/ \E found \in BOOLEAN : Command(c, found)
        \/ \E ctxv \in {"nil", "live", "done"}, found \in BOOLEAN :
                CommandContext(c, ctxv, found)
        \/ \E t \in {"bytes.Buffer", "os.File"} : SetStderr(c, t)
        \/ CtxCancel(c)
        \/ \E b \in Bytes : ProcWrite(c, b)
        \/ \E code \in {0, 1} : ProcExit(c, code)
        \/ CtxKill(c)
        \/ \E spawnOk \in BOOLEAN : CmdRun(c, spawnOk)
        \/ CmdRunReturn(c)
        \/ \E found, spawnOk \in BOOLEAN : Run(c, found, spawnOk)
        \/ \E ctxv \in {"nil", "live", "done"}, found, spawnOk \in BOOLEAN :
                RunContext(c, ctxv, found, spawnOk)
        \/ \E spawnOk \in BOOLEAN : RunCommand(c, spawnOk)
        \/ \E spawnOk \in BOOLEAN : LegacyRunCommand(c, spawnOk)
        \/ LegacyRunCommandReturn(c)
        \/ \E spawnOk \in BOOLEAN : CmdStart(c, spawnOk)
        \/ CmdWait(c)
        \/ \E again \in BOOLEAN, msg \in Msgs : Annotate(c, again, msg)

Spec == Init /\ [][Next]_vars

----------------------------------------------------------------------------
\* Two commands with Stderr unset, executed concurrently: each is built by
\* Command for a program that exists, and is executed by Run or by Start and
\* Wait while its child writes bytes of its own and exits.

Init2 == InitWith({1, 2})

\* The byte the child of command c writes, any number of times (the test
\* child echoes its own arguments).
OwnBytes(c) == IF c = 1 THEN {"a"} ELSE {"b"}

Next2 ==
    \E c \in Cmds :
        \/ Command(c, TRUE)
        \/ \E b \in OwnBytes(c) : ProcWrite(c, b)
        \/ \E code \in {0, 1} : ProcExit(c, code)
        \/ CmdRun(c, TRUE)
        \/ CmdRunReturn(c)
        \/ CmdStart(c, TRUE)
        \/ CmdWait(c)

Spec2 == Init2 /\ [][Next2]_vars

----------------------------------------------------------------------------
\* The search for an executable, on its own: the caller sets PATH and calls
\* LookPath; no command is built.

\* t.Setenv("PATH", ...): one more directory at the front, or PATH emptied.
SetPath(d) ==
    /\ Len(env) < MaxPath
    /\ env' = <<d>> \o env
    /\ UNCHANGED <<active, pc, cmd, bufs, local, ret, written, annot, ncalls,
                   callerSet, look, entry, hist>>

ClearPath ==
    /\ env # <<>>
    /\ env' = <<>>
    /\ UNCHANGED <<active, pc, cmd, bufs, local, ret, written, annot, ncalls,
                   callerSet, look, entry, hist>>

LookPathCall(file) ==
    /\ look' = [look EXCEPT ![file] =
                    [called |-> TRUE, env |-> env,
                     path |-> LookPath(env, file).path,
                     err |-> LookPath(env, file).err]]
    /\ UNCHANGED <<active, pc, cmd, bufs, local, ret, written, annot, ncalls,
                   callerSet, env, entry, hist>>

NextLook ==
    \/ \E d \in Dirs : SetPath(d)
    \/ ClearPath
    \/ \E file \in Files : LookPathCall(file)

SpecLook == Init /\ [][NextLook]_vars

----------------------------------------------------------------------------
\* Properties.

\* Call `call` on command c has returned and is the last call made on it.
Returned(c, call) == c \in active /\ pc[c] = "idle" /\ ret[c].call = call

\* Run or Wait on command c has returned and is the last call made on it.
RunOrWaitReturned(c) == Returned(c, "Run") \/ Returned(c, "Wait")

\* No layer of the error carries a diagnostic payload.
NoPayload(err) == \A i \in 1..Len(err) : err[i].Stderr = NilSlice

\* The bytes of the payload of the error.
Captured(err) == SliceBytes(PayloadOf(err))

\* The error is an ExitError itself, with a non-nil payload holding bs.
ExitWith(err, bs) ==
    /\ AsExit(err) = 1
    /\ ~PayloadOf(err).isnil
    /\ Captured(err) = bs

\* The call that returned last on command c reads the wrapper's own sink: Run
\* found Stderr unset, or Wait finds the sink in the Stderr field.
SinkInUse(c) ==
    \/ ret[c].call = "Run" /\ ret[c].unset
    \/ ret[c].call = "Wait" /\ cmd[c].Stderr = NewBuffer(c)

\* C1: when Cmd.Run was called with Stderr unset and the child exited with a
\* non-zero or signal status, Run returns an ExitError whose Stderr payload is
\* exactly the sequence of bytes the child wrote to its error stream.
C1_RunCapturesStderr ==
    \A c \in active :
        (/\ Returned(c, "Run") /\ ret[c].unset
         /\ cmd[c].proc = "exited" /\ cmd[c].code # 0)
        => ExitWith(ret[c].err, written[c])

C1_Witness ==
    \E c \in active :
        /\ Returned(c, "Run") /\ ret[c].unset
        /\ cmd[c].code = 1 /\ Len(written[c]) >= 2
        /\ IsExit(ret[c].err)

\* C2: when the caller set Stderr before Cmd.Run, no sink is ever allocated,
\* the Stderr field keeps the caller's destination, that destination holds
\* exactly the bytes the child wrote, and Run returns the platform's error
\* unmodified, with no payload.
C2_CallerStderrUntouched ==
    \A c \in active :
        callerSet[c] # NilWriter =>
            /\ cmd[c].Stderr = callerSet[c]
            /\ ~bufs[SinkId(c)].backed
            /\ bufs[CallerId(c)].data = written[c]
            /\ Returned(c, "Run") =>
                    ret[c].err = ret[c].plat /\ NoPayload(ret[c].err)

C2_Witness ==
    \E c \in active :
        /\ Returned(c, "Run") /\ callerSet[c].type = "bytes.Buffer"
        /\ IsExit(ret[c].err) /\ Len(written[c]) >= 2

\* C3: when the platform's Run or Wait reports an error that is no
\* ExitError, Cmd.Run and Cmd.Wait return that error unchanged and no payload
\* is attached to it, with or without a sink installed.
C3_OtherErrorsUnchanged ==
    \A c \in active :
        (RunOrWaitReturned(c) /\ ret[c].plat # NilErr /\ ~IsExit(ret[c].plat))
        => ret[c].err = ret[c].plat /\ NoPayload(ret[c].err)

C3_Witness ==
    \E c \in active :
        /\ Returned(c, "Wait") /\ ret[c].plat = CtxErr
        /\ cmd[c].Stderr = NewBuffer(c) /\ written[c] # <<>>

C5_CancelledAlwaysCtxErr ==
    \A c \in active :
        (Returned(c, "Run") /\ ret[c].ctx = "done" /\ ret[c].fresh) =>
            /\ ret[c].err = CtxErr
            /\ ~IsExit(ret[c].err) /\ NoPayload(ret[c].err)

\* C5 as amended: when the context was already cancelled as Run was invoked
\* on a command never started before, no process is spawned and Run returns
\* the platform's error unchanged: the context's own error when the program
\* name had resolved to an executable, the lookup failure recorded at
\* construction otherwise; never an ExitError, never with a payload, although
\* the sink was installed when Stderr was unset.
C5_CancelledBeforeRun ==
    \A c \in active :
        (Returned(c, "Run") /\ ret[c].ctx = "done" /\ ret[c].fresh) =>
            /\ ret[c].err = (IF cmd[c].Err THEN LookupErr ELSE CtxErr)
            /\ ret[c].err = ret[c].plat
            /\ ~IsExit(ret[c].err) /\ NoPayload(ret[c].err)
            /\ cmd[c].proc = "none"
            /\ ret[c].unset =>
                    cmd[c].Stderr = NewBuffer(c) /\ bufs[SinkId(c)].backed

C5_Witness ==
    \E c \in active :
        /\ Returned(c, "Run") /\ ret[c].ctx = "done" /\ ret[c].fresh
        /\ ret[c].unset /\ ret[c].err = CtxErr

\* C6 as stated: when the context is cancelled while the child runs and the
\* platform kills it, Run / Wait returns the context's own error, with no
\* payload copied into any error.
C6_CancelWhileRunningGivesCtxErr ==
    \A c \in active :
        (RunOrWaitReturned(c) /\ ret[c].reaped /\ cmd[c].code = -1)
        => ret[c].err = CtxErr /\ NoPayload(ret[c].err)

\* C6 as amended: when the context is cancelled after the child was spawned
\* and the platform has signalled it, Run / Wait returns what the platform's
\* wait reports.  A child that ended with a signal or non-zero status yields
\* an ExitError, enriched with exactly the bytes written when the call reads
\* the wrapper's sink; only a child that had exited with status zero yields
\* the context's own error, unchanged and without payload.
C6_CancelAfterSpawn ==
    \A c \in active :
        (RunOrWaitReturned(c) /\ ret[c].reaped /\ cmd[c].killSent) =>
            IF cmd[c].code # 0
            THEN /\ AsExit(ret[c].err) = 1
                 /\ SinkInUse(c) => ExitWith(ret[c].err, written[c])
            ELSE ret[c].err = CtxErr /\ ret[c].err = ret[c].plat
                    /\ NoPayload(ret[c].err)

C6_Witness ==
    \E c \in active :
        /\ Returned(c, "Run") /\ ret[c].reaped /\ ret[c].unset
        /\ cmd[c].code = -1 /\ written[c] # <<>>
        /\ IsExit(ret[c].err)

\* C7: with Stderr unset, Start installs the sink and returns once the child
\* is spawned, without reaping it, and the Wait that reaps the child returns
\* what Run's own tail would: nil when the platform reports nil, and for an
\* exit failure an ExitError whose payload is exactly the bytes written.
C7_StartWaitLikeRun ==
    \A c \in active :
        /\ (Returned(c, "Start") /\ ret[c].unset) =>
                /\ cmd[c].Stderr = NewBuffer(c) /\ bufs[SinkId(c)].backed
                /\ ret[c].err = NilErr => cmd[c].proc # "none" /\ ~cmd[c].waited
        /\ (Returned(c, "Wait") /\ ret[c].reaped /\ cmd[c].Stderr = NewBuffer(c)) =>
                /\ ret[c].err = RunEnrich(bufs, cmd[c].Stderr, ret[c].plat)
                /\ ret[c].plat = NilErr => ret[c].err = NilErr
                /\ IsExit(ret[c].plat) => ExitWith(ret[c].err, written[c])

C7_Witness ==
    \E c \in active :
        /\ Returned(c, "Wait") /\ ret[c].reaped /\ cmd[c].Stderr = NewBuffer(c)
        /\ cmd[c].code = 1 /\ Len(written[c]) >= 2
        /\ Captured(ret[c].err) = written[c]

\* C8 as stated: when the caller set Stderr, Wait returns the platform's
\* error unmodified, with a nil payload, whatever the kind of destination.
C8_WaitLeavesCallerDestination ==
    \A c \in active :
        (Returned(c, "Wait") /\ callerSet[c] # NilWriter)
        => ret[c].err = ret[c].plat /\ PayloadOf(ret[c].err).isnil

\* C9: CommandError of a nil error is nil, for every message.
C9_CommandErrorNil ==
    \A c \in active :
        (annot[c].called /\ annot[c].in = NilErr) => annot[c].out = NilErr

C9_Witness ==
    \E c \in active :
        annot[c].called /\ annot[c].in = NilErr /\ annot[c].msg = <<"m">>

\* C10: CommandError of a non-nil error that neither is nor wraps an
\* ExitError is the non-nil usage failure, which is no ExitError and wraps
\* none.
C10_CommandErrorUsage ==
    \A c \in active :
        (annot[c].called /\ annot[c].in # NilErr /\ ~IsExit(annot[c].in)) =>
            /\ annot[c].out # NilErr
            /\ annot[c].out = UsageErr
            /\ ~IsExit(annot[c].out)

C10_Witness ==
    \E c \in active :
        annot[c].called /\ annot[c].in = LookupErr /\ annot[c].msg = <<"m">>

\* The text CommandError builds around the original error, without any
\* payload part: the message, then the original error's text in parentheses.
PlainText(err, errMsg) == errMsg \o <<" (">> \o ErrText(err) \o <<")">>

\* C11: for every exit failure whose payload holds zero bytes, whether it is
\* nil (capture not active) or the empty capture of a silent child, the text
\* of CommandError's result is the message wrapping the original error, with
\* nothing after it.
C11_EmptyPayloadPlainText ==
    \A c \in active :
        (/\ annot[c].called /\ IsExit(annot[c].in)
         /\ Captured(annot[c].in) = <<>>)
        => ErrText(annot[c].out) = PlainText(annot[c].in, annot[c].msg)

\* C12: for every exit failure with a non-empty payload, the text of
\* CommandError's result is the message, the original error's text, a line
\* break and then the payload bytes exactly; the result wraps the original
\* error, so it is still recognised as an ExitError with the same payload.
C12_PayloadAppended ==
    \A c \in active :
        (/\ annot[c].called /\ IsExit(annot[c].in)
         /\ Captured(annot[c].in) # <<>>)
        => /\ ErrText(annot[c].out) =
                PlainText(annot[c].in, annot[c].msg) \o <<"\n">>
                    \o Captured(annot[c].in)
           /\ SubSeq(annot[c].out, 2, Len(annot[c].out)) = annot[c].in
           /\ IsExit(annot[c].out)
           /\ PayloadOf(annot[c].out) = PayloadOf(annot[c].in)

C12_Witness ==
    \E c \in active :
        /\ annot[c].called /\ annot[c].msg = <<"m">>
        /\ annot[c].in = ret[c].err /\ IsExit(ret[c].err)
        /\ Captured(ret[c].err) = written[c] /\ Len(written[c]) >= 2
        /\ Len(annot[c].out) = Len(annot[c].in) + 1

C14_NilContextPanics ==
    \A c \in active :
        /\ (entry[c].via \in {"RunContext", "CommandContext"} /\ entry[c].ctx = "nil")
           => /\ pc[c] = "panic"
              /\ entry[c].panic = "nil Context"
              /\ ret[c] = NoRet /\ ncalls[c] = 0
              /\ cmd[c] = NoCmd /\ cmd[c].proc = "none"
              /\ ~bufs[SinkId(c)].backed /\ local[c] = NilWriter
              /\ written[c] = <<>>
        /\ pc[c] = "panic" => entry[c].ctx = "nil"

C14_Witness ==
    \E c \in active :
        entry[c].via = "RunContext" /\ entry[c].ctx = "nil" /\ pc[c] = "panic"

\* A call of Run, RunContext or RunCommand (of either revision) on command c
\* has returned.
EntryReturned(c) ==
    /\ Returned(c, "Run")
    /\ entry[c].via \in {"Run", "RunContext", "RunCommand", "cmd.go RunCommand"}

\* C15: Run, RunContext and RunCommand return what Cmd.Run returns for the
\* same command: nil exactly when the platform returned nil; for an exit
\* failure with Stderr unset, the ExitError with the bytes the child wrote as
\* its payload; for an exit failure with Stderr set by the caller, and for
\* every other error, the platform's error unchanged with no payload.
C15_EntryPointsLikeCmdRun ==
    \A c \in active :
        EntryReturned(c) =>
            /\ ret[c].err = NilErr <=> ret[c].plat = NilErr
            /\ (IsExit(ret[c].plat) /\ ret[c].unset)
               => /\ ExitWith(ret[c].err, written[c])
                  /\ ret[c].err = [ret[c].plat EXCEPT ![1].Stderr = PayloadOf(ret[c].err)]
            /\ (IsExit(ret[c].plat) /\ ~ret[c].unset)
               => ret[c].err = ret[c].plat /\ PayloadOf(ret[c].err).isnil
            /\ ~IsExit(ret[c].plat)
               => ret[c].err = ret[c].plat /\ NoPayload(ret[c].err)

C15_Witness ==
    \E c \in active :
        /\ EntryReturned(c) /\ entry[c].via = "cmd.go RunCommand"
        /\ ret[c].unset /\ IsExit(ret[c].err) /\ Len(written[c]) >= 1

\* C16: two commands with Stderr unset, executed concurrently, never
\* interfere: under every interleaving each command that has a sink has one
\* of its own, in its own Stderr field, and the payload of each ExitError
\* returned by Run or Wait is exactly what its own child wrote, with no byte
\* of the other child.
C16_NoInterference ==
    \A c \in active :
        /\ cmd[c].Stderr # NilWriter
           => /\ cmd[c].Stderr = NewBuffer(c)
              /\ \A d \in active \ {c} : cmd[d].Stderr.id # cmd[c].Stderr.id
        /\ bufs[SinkId(c)].data = written[c]
        /\ (RunOrWaitReturned(c) /\ IsExit(ret[c].err))
           => /\ ExitWith(ret[c].err, written[c])
              /\ PayloadOf(ret[c].err).buf = SinkId(c)
              /\ \A i \in 1..Len(Captured(ret[c].err)) :
                    /\ Captured(ret[c].err)[i] \in OwnBytes(c)
                    /\ \A d \in active \ {c} :
                            Captured(ret[c].err)[i] \notin OwnBytes(d)

C16_Witness ==
    /\ Returned(1, "Run") /\ Returned(2, "Wait")
    /\ IsExit(ret[1].err) /\ IsExit(ret[2].err)
    /\ Captured(ret[1].err) = <<"a", "a">>
    /\ Captured(ret[2].err) = <<"b", "b">>

\* Some layer of the error has a payload that is a slice of buffer id.
Aliases(err, id) ==
    \E i \in 1..Len(err) : ~err[i].Stderr.isnil /\ err[i].Stderr.buf = id

\* C17 as stated: in no reachable state does a value the caller can reach, a
\* field of a command it holds or the payload of a returned error, refer to
\* the sink the wrapper created.
C17_SinkNeverExposed ==
    \A c \in active :
        /\ Held(c) => cmd[c].Stderr # NewBuffer(c)
        /\ ~Aliases(ret[c].err, SinkId(c))

\* C17, amended: the wrapper creates the sink only for a command whose
\* Stderr the caller left unset and no call returns it, but from then on the
\* command's Stderr field is the sink itself, and the payload of the
\* ExitError that Run or Wait returns for the command is a slice of the
\* sink's memory; no field or error of another command refers to it.
C17_SinkReachableThroughCommand ==
    \A c \in active :
        /\ bufs[SinkId(c)].backed <=> cmd[c].Stderr = NewBuffer(c)
        /\ bufs[SinkId(c)].backed => callerSet[c] = NilWriter
        /\ (RunOrWaitReturned(c) /\ SinkInUse(c) /\ IsExit(ret[c].err))
           => /\ bufs[SinkId(c)].backed
              /\ PayloadOf(ret[c].err) = MkSlice(SinkId(c), Len(bufs[SinkId(c)].data))
        /\ \A d \in Cmds \ {c} :
                /\ cmd[d].Stderr.id # SinkId(c)
                /\ ~Aliases(ret[d].err, SinkId(c))
                /\ ~Aliases(annot[d].out, SinkId(c))

C17_Witness ==
    \E c \in active :
        /\ Returned(c, "Run") /\ entry[c].via = "Cmd.Run" /\ Held(c)
        /\ cmd[c].Stderr = NewBuffer(c)
        /\ Aliases(ret[c].err, SinkId(c))
        /\ Len(written[c]) >= 1

\* The call that returned last on command c was refused by the platform and
\* the wrapper passed the refusal on: a non-nil error that is no ExitError,
\* identical to the platform's, with no payload.
Refused(c) ==
    /\ ret[c].err # NilErr /\ ~IsExit(ret[c].err)
    /\ ret[c].err = ret[c].plat /\ NoPayload(ret[c].err)

\* C18: a command is one-shot: at most one child is ever spawned for it;
\* Wait before a start, Run or Start once a child was started, and Wait after
\* the child was reaped are each refused with a non-nil error that is no
\* ExitError and is passed on as it is; and the payload of the first
\* ExitError returned for the command holds, in every later state, the bytes
\* it held when it was returned.
C18_OneShot ==
    \A c \in active :
        /\ hist[c].spawns <= 1
        /\ (Returned(c, "Wait") /\ ret[c].fresh) => Refused(c)
        /\ ((Returned(c, "Run") \/ Returned(c, "Start")) /\ ~ret[c].fresh)
           => Refused(c)
        /\ (Returned(c, "Wait") /\ ~ret[c].fresh /\ ~ret[c].reaped) => Refused(c)
        /\ hist[c].done
           => /\ IsExit(hist[c].first)
              /\ SliceBytes(PayloadOf(hist[c].first)) = hist[c].bytes

C18_Witness ==
    \E c \in active :
        /\ hist[c].done /\ Len(hist[c].bytes) >= 1 /\ hist[c].spawns = 1
        /\ Returned(c, "Wait") /\ ~ret[c].fresh /\ ~ret[c].reaped
        /\ ret[c].err = WaitTwiceErr
        /\ ncalls[c] = 3

====
